---- MODULE Spec2Model ----
(***************************************************************************)
(* Model of src/sql_chat.py: the retrying invoker                          *)
(* (invoke_bedrock_with_retry), SQL generation and clean-up (generate_sql),*)
(* query execution (run_query) and the four tier facades                   *)
(* (return_*_matched_jobs).                                                *)
(*                                                                         *)
(* Texts (LLM output, error messages) are sequences of one-character       *)
(* strings, so that `in`, str.split and str.strip are computed as Python   *)
(* computes them.                                                          *)
(***************************************************************************)
EXTENDS Integers, Sequences, FiniteSets, TLC

\* ------------------------------------------------------------------------
\* Bounds of the model
\* ------------------------------------------------------------------------
\* An LLM output is a concatenation of at most MaxPieces pieces of Pieces.
MaxPieces == 3
\* Arguments drawn for a direct call of invoke_bedrock_with_retry.
MaxRetriesArg == 5
MaxInitialWait == 2
\* Concurrent callers of invoke_bedrock_with_retry and their arguments.
NumCallers == 2
MaxRetriesConc == 2

\* ------------------------------------------------------------------------
\* Program constants
\* ------------------------------------------------------------------------
\* def invoke_bedrock_with_retry(..., max_retries=5, initial_wait=1)
DefaultMaxRetries == 5
DefaultInitialWait == 1

\* 'SQL Query:'  (generate_sql, lines 94-95)
SqlMarker == <<"S", "Q", "L", " ", "Q", "u", "e", "r", "y", ":">>

\* "ThrottlingException"  (invoke_bedrock_with_retry, line 66)
ThrottlingMarker ==
  <<"T", "h", "r", "o", "t", "t", "l", "i", "n", "g",
    "E", "x", "c", "e", "p", "t", "i", "o", "n">>

\* Characters str.strip() removes (the ones the model's texts can hold).
Whitespace == {" ", "\n"}

\* ------------------------------------------------------------------------
\* Python string operations
\* ------------------------------------------------------------------------
\* needle in hay
Contains(hay, needle) ==
  \E i \in 1..(Len(hay) - Len(needle) + 1) :
    SubSeq(hay, i, i + Len(needle) - 1) = needle

\* hay.find(needle), 1-based; 0 when absent
Find(hay, needle) ==
  IF Contains(hay, needle)
  THEN CHOOSE i \in 1..(Len(hay) - Len(needle) + 1) :
         /\ SubSeq(hay, i, i + Len(needle) - 1) = needle
         /\ \A j \in 1..(i - 1) : SubSeq(hay, j, j + Len(needle) - 1) # needle
  ELSE 0

\* s.split(sep): the list of the pieces between the occurrences of sep
RECURSIVE Split(_, _)
Split(s, sep) ==
  IF ~Contains(s, sep)
  THEN <<s>>
  ELSE LET i == Find(s, sep)
       IN  <<SubSeq(s, 1, i - 1)>> \o Split(SubSeq(s, i + Len(sep), Len(s)), sep)

RECURSIVE LStrip(_)
LStrip(s) ==
  IF s # <<>> /\ Head(s) \in Whitespace THEN LStrip(Tail(s)) ELSE s

RECURSIVE RStrip(_)
RStrip(s) ==
  IF s # <<>> /\ s[Len(s)] \in Whitespace
  THEN RStrip(SubSeq(s, 1, Len(s) - 1))
  ELSE s

\* s.strip()
Strip(s) == RStrip(LStrip(s))

\* generate_sql, lines 94-95:
\*   if 'SQL Query:' in generated_sql:
\*       generated_sql = generated_sql.split('SQL Query:')[1].strip()
cleanGeneratedText(raw) ==
  IF Contains(raw, SqlMarker)
  THEN Strip(Split(raw, SqlMarker)[2])
  ELSE raw

\* ------------------------------------------------------------------------
\* Values
\* ------------------------------------------------------------------------
\* An exception: its class and str(e).
Err(type, msg) == [type |-> type, msg |-> msg]
NoErr == Err("", <<>>)

\* raise RuntimeError("Exceeded maximum retries while invoking Bedrock.")
RetriesExhaustedError ==
  Err("RuntimeError",
      <<"E", "x", "c", "e", "e", "d", "e", "d", " ", "m", "a", "x", "i", "m",
        "u", "m", " ", "r", "e", "t", "r", "i", "e", "s", " ", "w", "h", "i",
        "l", "e", " ", "i", "n", "v", "o", "k", "i", "n", "g", " ", "B", "e",
        "d", "r", "o", "c", "k", ".">>)

\* What the prompt template raises when a placeholder has no input.
MissingExperienceError ==
  Err("KeyError",
      <<"m", "i", "s", "s", "i", "n", "g", " ", "v", "a", "r", "i", "a", "b",
        "l", "e", "s", " ", "{", "'", "e", "x", "p", "e", "r", "i", "e", "n",
        "c", "e", "'", "}">>)

\* Errors the text-completion collaborator (llm) can raise: a throttled
\* request, another service error, and a message that holds only a prefix
\* of the marker.
LlmErrors ==
  { Err("ClientError", <<"(">> \o ThrottlingMarker \o <<")">>),
    Err("ClientError", <<"A", "c", "c", "e", "s", "s", "D", "e", "n", "i", "e", "d">>),
    Err("ClientError", <<"T", "h", "r", "o", "t", "t", "l", "i", "n", "g">>) }

\* Errors db.get_table_info() can raise.
SchemaErrors ==
  { Err("OperationalError",
        <<"c", "o", "n", "n", "e", "c", "t", "i", "o", "n", " ", "r", "e", "f",
          "u", "s", "e", "d">>),
    Err("OperationalError", ThrottlingMarker) }

\* Errors db.run(query) can raise.
DbRunErrors ==
  { Err("ProgrammingError",
        <<"s", "y", "n", "t", "a", "x", " ", "e", "r", "r", "o", "r">>),
    Err("ProgrammingError", ThrottlingMarker \o <<":">>) }

\* What db.run(query) can return.
DbResults == {"[(1,), (2,)]", ""}

\* The pieces LLM outputs are made of.
Pieces == {SqlMarker, <<" ">>, <<"\n">>, <<"a">>}

RECURSIVE Flatten(_)
Flatten(ps) == IF ps = <<>> THEN <<>> ELSE Head(ps) \o Flatten(Tail(ps))

\* The texts the LLM can return.
RawTexts == { Flatten(ps) : ps \in UNION { [1..n -> Pieces] : n \in 0..MaxPieces } }

\* The values a stub completion function returns in a direct call.
CompletionValues == { <<>>, <<"a">> }

\* What the stub completion function of a concurrent caller returns and
\* raises, and the initial_wait arguments of concurrent callers.
ConcValues == { <<"a">> }
ConcErrors ==
  { Err("ClientError", <<"(">> \o ThrottlingMarker \o <<")">>),
    Err("ClientError", <<"A", "c", "c", "e", "s", "s", "D", "e", "n", "i", "e", "d">>) }
ConcInitialWaits == {1, 2}

\* The experience argument: None, "" or a text.
None == [isNone |-> TRUE, text |-> <<>>]
Str(t) == [isNone |-> FALSE, text |-> t]
ExperienceArgs == { None, Str(<<>>), Str(<<"2", " ", "Y", "e", "a", "r", "s">>) }

\* Python truthiness of the experience argument (`if experience:`).
Truthy(x) == ~x.isNone /\ x.text # <<>>

\* The four facades and the template each passes to generate_sql.
Facades == { "return_low_matched_jobs", "return_medium_matched_jobs",
             "return_intermediate_matched_jobs", "return_high_matched_jobs" }

TemplateOf(f) ==
  CASE f = "return_low_matched_jobs" -> "low"
    [] f = "return_medium_matched_jobs" -> "medium"
    [] f = "return_intermediate_matched_jobs" -> "intermediate"
    [] f = "return_high_matched_jobs" -> "high"

\* The experience argument each facade passes to generate_sql: the low and
\* medium facades pass none (the default None), the others pass their own.
FacadeExperienceArgs(f) ==
  IF TemplateOf(f) \in {"low", "medium"} THEN {None} ELSE ExperienceArgs

\* The placeholders of templates[template_name].
TemplateVars(t) ==
  IF t \in {"intermediate", "high"}
  THEN {"schema", "skills", "experience"}
  ELSE {"schema", "skills"}

\* Mutant of BuildInputs: the experience key is set whatever the argument.
BuildInputs_always(exp) == {"skills", "experience"}

\* generate_sql, lines 88-90: the keys of inputs.
BuildInputs(exp) ==
  IF Truthy(exp) THEN {"skills", "experience"} ELSE {"skills"}

\* The placeholders left without a value once schema is assigned.
MissingVars(t, inp) == TemplateVars(t) \ (inp \cup {"schema"})

\* Mutant of IsThrottling: every exception is taken for a throttled request.
IsThrottling_any(e) == TRUE

\* "ThrottlingException" in str(e)
IsThrottling(e) == Contains(e.msg, ThrottlingMarker)

\* Mutant of NextWait: the wait is not doubled.
NextWait_same(w) == w

\* wait_time *= 2
NextWait(w) == w * 2

\* ------------------------------------------------------------------------
\* State
\* ------------------------------------------------------------------------
VARIABLES
  pc,            \* call id -> where the call is
  facade,        \* call id -> the facade called, "none" for a direct call
  experience,    \* call id -> the experience argument
  inputs,        \* call id -> keys of generate_sql's inputs
  max_retries,   \* call id -> argument of invoke_bedrock_with_retry
  initial_wait,  \* call id -> argument of invoke_bedrock_with_retry
  wait_time,     \* call id -> local of invoke_bedrock_with_retry
  attempt,       \* call id -> loop index of invoke_bedrock_with_retry
  log,           \* call id -> prompt_chain.invoke calls and sleeps, in order
  completionRet, \* call id -> what prompt_chain.invoke returned last
  outcome,       \* call id -> how invoke_bedrock_with_retry ended
  generated_sql, \* call id -> local of generate_sql
  schemaFetches, \* call id -> number of db.get_table_info() calls
  llmCalls,      \* call id -> number of llm calls
  dbRunArgs,     \* call id -> arguments of the db.run calls, in order
  dbRunRet,      \* call id -> how the last db.run call ended
  facadeOutcome  \* call id -> how the facade ended

args == <<facade, experience, max_retries, initial_wait>>
facadeVars == <<inputs, generated_sql, dbRunArgs, dbRunRet, facadeOutcome>>
chainVars == <<schemaFetches, llmCalls>>
vars == <<pc, facade, experience, inputs, max_retries, initial_wait, wait_time,
          attempt, log, completionRet, outcome, generated_sql,
          schemaFetches, llmCalls, dbRunArgs, dbRunRet, facadeOutcome>>

Calls == DOMAIN pc

NoOutcome == [kind |-> "none", value |-> <<>>, err |-> NoErr]
Returned(v) == [kind |-> "returned", value |-> v, err |-> NoErr]
Raised(e) == [kind |-> "raised", value |-> <<>>, err |-> e]

NoFacadeOutcome == [kind |-> "none", rows |-> "", err |-> NoErr]
FacadeReturned(r) == [kind |-> "returned", rows |-> r, err |-> NoErr]
FacadeRaised(e) == [kind |-> "raised", rows |-> "", err |-> e]

\* Log entries: a prompt_chain.invoke call (how it ended, in which stage of the
\* chain, the exception it raised) or a time.sleep (its argument).
CallEv(res, at, e) == [ev |-> "call", res |-> res, at |-> at, err |-> e, secs |-> 0]
SleepEv(t) == [ev |-> "sleep", res |-> "-", at |-> "-", err |-> NoErr, secs |-> t]

InitCommon(ids) ==
  /\ wait_time = [c \in ids |-> 0]
  /\ attempt = [c \in ids |-> 0]
  /\ log = [c \in ids |-> <<>>]
  /\ completionRet = [c \in ids |-> <<>>]
  /\ outcome = [c \in ids |-> NoOutcome]
  /\ inputs = [c \in ids |-> {}]
  /\ generated_sql = [c \in ids |-> <<>>]
  /\ schemaFetches = [c \in ids |-> 0]
  /\ llmCalls = [c \in ids |-> 0]
  /\ dbRunArgs = [c \in ids |-> <<>>]
  /\ dbRunRet = [c \in ids |-> NoFacadeOutcome]
  /\ facadeOutcome = [c \in ids |-> NoFacadeOutcome]

\* One call of one of the four facades.
Init ==
  /\ \E f \in Facades : \E x \in FacadeExperienceArgs(f) :
       /\ facade = [c \in {1} |-> f]
       /\ experience = [c \in {1} |-> x]
  /\ pc = [c \in {1} |-> "facade"]
  /\ max_retries = [c \in {1} |-> 0]
  /\ initial_wait = [c \in {1} |-> 0]
  /\ InitCommon({1})

\* One direct call of invoke_bedrock_with_retry with a stub prompt_chain.
InitRetry ==
  /\ facade = [c \in {1} |-> "none"]
  /\ experience = [c \in {1} |-> None]
  /\ pc = [c \in {1} |-> "invoke"]
  /\ max_retries \in [{1} -> 1..MaxRetriesArg]
  /\ initial_wait \in [{1} -> 1..MaxInitialWait]
  /\ InitCommon({1})

\* NumCallers concurrent direct calls of invoke_bedrock_with_retry.
InitConc ==
  /\ facade = [c \in 1..NumCallers |-> "none"]
  /\ experience = [c \in 1..NumCallers |-> None]
  /\ pc = [c \in 1..NumCallers |-> "invoke"]
  /\ max_retries \in [1..NumCallers -> 1..MaxRetriesConc]
  /\ initial_wait \in [1..NumCallers -> ConcInitialWaits]
  /\ InitCommon(1..NumCallers)

\* ------------------------------------------------------------------------
\* invoke_bedrock_with_retry (lines 57-73)
\* ------------------------------------------------------------------------
\* Mutant of InRange: one iteration too many.
InRange_inclusive(c) == attempt[c] <= max_retries[c]

\* for attempt in range(max_retries): the loop body runs for this index
InRange(c) == attempt[c] < max_retries[c]

\* An exception leaves invoke_bedrock_with_retry; under a facade it leaves
\* generate_sql and the facade too (neither catches anything).
Propagate(c, e) ==
  /\ outcome' = [outcome EXCEPT ![c] = Raised(e)]
  /\ facadeOutcome' =
       IF facade[c] = "none" THEN facadeOutcome
       ELSE [facadeOutcome EXCEPT ![c] = FacadeRaised(e)]
  /\ pc' = [pc EXCEPT ![c] = "done"]

\* except Exception as e (lines 65-72), for the call that raised e at `at`
Caught(c, e, at) ==
  IF IsThrottling(e)
  THEN /\ log' = [log EXCEPT ![c] = Append(@, CallEv("throttled", at, e))]
       /\ pc' = [pc EXCEPT ![c] = "sleep"]
       /\ UNCHANGED <<outcome, facadeOutcome>>
  ELSE /\ log' = [log EXCEPT ![c] = Append(@, CallEv("error", at, e))]
       /\ Propagate(c, e)

\* return prompt_chain.invoke(inputs) (line 64), the call having returned v
ReturnValue(c, v, at) ==
  /\ log' = [log EXCEPT ![c] = Append(@, CallEv("ok", at, NoErr))]
  /\ completionRet' = [completionRet EXCEPT ![c] = v]
  /\ outcome' = [outcome EXCEPT ![c] = Returned(v)]
  /\ generated_sql' = [generated_sql EXCEPT ![c] = IF facade[c] = "none" THEN @ ELSE v]
  /\ pc' = [pc EXCEPT ![c] = IF facade[c] = "none" THEN "done" ELSE "clean"]

\* wait_time = initial_wait (line 61)
EnterRetry(c) ==
  /\ pc[c] = "invoke"
  /\ wait_time' = [wait_time EXCEPT ![c] = initial_wait[c]]
  /\ attempt' = [attempt EXCEPT ![c] = 0]
  /\ pc' = [pc EXCEPT ![c] = "try"]
  /\ UNCHANGED <<args, facadeVars, chainVars, log, completionRet, outcome>>

\* A stub prompt_chain returns v.
CompletionReturns(c, v) ==
  /\ pc[c] = "try" /\ InRange(c) /\ facade[c] = "none"
  /\ ReturnValue(c, v, "chain")
  /\ UNCHANGED <<args, chainVars, inputs, dbRunArgs, dbRunRet, facadeOutcome, wait_time, attempt>>

\* A stub prompt_chain raises e.
CompletionRaises(c, e) ==
  /\ pc[c] = "try" /\ InRange(c) /\ facade[c] = "none"
  /\ Caught(c, e, "chain")
  /\ UNCHANGED <<args, chainVars, inputs, generated_sql, dbRunArgs, dbRunRet, wait_time,
                 attempt, completionRet>>

\* time.sleep(wait_time) (line 68)
Sleep(c) ==
  /\ pc[c] = "sleep"
  /\ log' = [log EXCEPT ![c] = Append(@, SleepEv(wait_time[c]))]
  /\ pc' = [pc EXCEPT ![c] = "double"]
  /\ UNCHANGED <<args, facadeVars, chainVars, wait_time, attempt, completionRet, outcome>>

\* Mutant of Double: wait_time is shared by all the calls in flight.
Double_shared(c) ==
  /\ pc[c] = "double"
  /\ wait_time' = [k \in Calls |-> NextWait(wait_time[k])]
  /\ attempt' = [attempt EXCEPT ![c] = @ + 1]
  /\ pc' = [pc EXCEPT ![c] = "try"]
  /\ UNCHANGED <<args, facadeVars, chainVars, log, completionRet, outcome>>

\* wait_time *= 2 (line 69), then the next index of the loop
Double(c) ==
  /\ pc[c] = "double"
  /\ wait_time' = [wait_time EXCEPT ![c] = NextWait(@)]
  /\ attempt' = [attempt EXCEPT ![c] = @ + 1]
  /\ pc' = [pc EXCEPT ![c] = "try"]
  /\ UNCHANGED <<args, facadeVars, chainVars, log, completionRet, outcome>>

\* The loop ends: raise RuntimeError(...) (line 73)
Exhausted(c) ==
  /\ pc[c] = "try" /\ ~InRange(c)
  /\ Propagate(c, RetriesExhaustedError)
  /\ UNCHANGED <<args, chainVars, inputs, generated_sql, dbRunArgs, dbRunRet, wait_time,
                 attempt, log, completionRet>>

\* ------------------------------------------------------------------------
\* generate_sql (lines 76-97), run_query (100-104), the facades (109-130)
\* ------------------------------------------------------------------------
\* A facade calls generate_sql, which builds the chain and inputs and calls
\* invoke_bedrock_with_retry(sql_chain, inputs) with the default arguments.
GenerateSql(c) ==
  /\ pc[c] = "facade"
  /\ inputs' = [inputs EXCEPT ![c] = BuildInputs(experience[c])]
  /\ max_retries' = [max_retries EXCEPT ![c] = DefaultMaxRetries]
  /\ initial_wait' = [initial_wait EXCEPT ![c] = DefaultInitialWait]
  /\ pc' = [pc EXCEPT ![c] = "invoke"]
  /\ UNCHANGED <<facade, experience, chainVars, wait_time, attempt, log,
                 completionRet, outcome, generated_sql, dbRunArgs, dbRunRet, facadeOutcome>>

\* Mutant of FetchSchema: the schema is fetched on the first attempt only.
FetchSchema_cached(c) ==
  schemaFetches' = [schemaFetches EXCEPT ![c] = IF attempt[c] = 0 THEN @ + 1 ELSE @]

\* get_schema: db.get_table_info() is called, once per sql_chain.invoke.
FetchSchema(c) == schemaFetches' = [schemaFetches EXCEPT ![c] = @ + 1]

\* sql_chain.invoke(inputs): RunnablePassthrough.assign(schema=get_schema)
\* raises e from db.get_table_info().
ChainSchemaRaises(c, e) ==
  /\ pc[c] = "try" /\ InRange(c) /\ facade[c] # "none"
  /\ FetchSchema(c)
  /\ Caught(c, e, "schema")
  /\ UNCHANGED <<args, llmCalls, inputs, generated_sql, dbRunArgs, dbRunRet, wait_time,
                 attempt, completionRet>>

\* sql_chain.invoke(inputs): the schema is fetched, the prompt template
\* finds a placeholder without a value.
ChainFormatRaises(c) ==
  /\ pc[c] = "try" /\ InRange(c) /\ facade[c] # "none"
  /\ MissingVars(TemplateOf(facade[c]), inputs[c]) # {}
  /\ FetchSchema(c)
  /\ Caught(c, MissingExperienceError, "format")
  /\ UNCHANGED <<args, llmCalls, inputs, generated_sql, dbRunArgs, dbRunRet, wait_time,
                 attempt, completionRet>>

\* sql_chain.invoke(inputs): schema fetched, prompt formatted, llm raises e.
ChainLlmRaises(c, e) ==
  /\ pc[c] = "try" /\ InRange(c) /\ facade[c] # "none"
  /\ MissingVars(TemplateOf(facade[c]), inputs[c]) = {}
  /\ FetchSchema(c)
  /\ llmCalls' = [llmCalls EXCEPT ![c] = @ + 1]
  /\ Caught(c, e, "llm")
  /\ UNCHANGED <<args, inputs, generated_sql, dbRunArgs, dbRunRet, wait_time, attempt,
                 completionRet>>

\* sql_chain.invoke(inputs): schema fetched, prompt formatted, llm returns
\* text, StrOutputParser passes it on.
ChainReturns(c, text) ==
  /\ pc[c] = "try" /\ InRange(c) /\ facade[c] # "none"
  /\ MissingVars(TemplateOf(facade[c]), inputs[c]) = {}
  /\ FetchSchema(c)
  /\ llmCalls' = [llmCalls EXCEPT ![c] = @ + 1]
  /\ ReturnValue(c, text, "llm")
  /\ UNCHANGED <<args, inputs, dbRunArgs, dbRunRet, facadeOutcome, wait_time, attempt>>

\* Mutant of Clean: the text goes to run_query as the invoker returned it.
Clean_skipped(c) ==
  /\ pc[c] = "clean"
  /\ pc' = [pc EXCEPT ![c] = "run_query"]
  /\ UNCHANGED <<args, chainVars, inputs, generated_sql, dbRunArgs, dbRunRet,
                 facadeOutcome, wait_time, attempt, log, completionRet, outcome>>

\* generate_sql, lines 94-97
Clean(c) ==
  /\ pc[c] = "clean"
  /\ generated_sql' = [generated_sql EXCEPT ![c] = cleanGeneratedText(@)]
  /\ pc' = [pc EXCEPT ![c] = "run_query"]
  /\ UNCHANGED <<args, chainVars, inputs, dbRunArgs, dbRunRet, facadeOutcome, wait_time,
                 attempt, log, completionRet, outcome>>

\* return run_query(sql_query): db.run(query) returns rows
RunQueryReturns(c, rows) ==
  /\ pc[c] = "run_query"
  /\ dbRunArgs' = [dbRunArgs EXCEPT ![c] = Append(@, generated_sql[c])]
  /\ dbRunRet' = [dbRunRet EXCEPT ![c] = FacadeReturned(rows)]
  /\ facadeOutcome' = [facadeOutcome EXCEPT ![c] = FacadeReturned(rows)]
  /\ pc' = [pc EXCEPT ![c] = "done"]
  /\ UNCHANGED <<args, chainVars, inputs, generated_sql, wait_time, attempt, log,
                 completionRet, outcome>>

\* Mutant of RunQueryRaises: a throttled db.run is backed off and retried.
RunQueryRaises_retry(c, e) ==
  /\ pc[c] = "run_query"
  /\ dbRunArgs' = [dbRunArgs EXCEPT ![c] = Append(@, generated_sql[c])]
  /\ dbRunRet' = [dbRunRet EXCEPT ![c] = FacadeRaised(e)]
  /\ IF IsThrottling(e)
     THEN /\ pc' = [pc EXCEPT ![c] = "sleep"]
          /\ UNCHANGED facadeOutcome
     ELSE /\ pc' = [pc EXCEPT ![c] = "done"]
          /\ facadeOutcome' = [facadeOutcome EXCEPT ![c] = FacadeRaised(e)]
  /\ UNCHANGED <<args, chainVars, inputs, generated_sql, wait_time, attempt, log,
                 completionRet, outcome>>

\* return run_query(sql_query): db.run(query) raises e
RunQueryRaises(c, e) ==
  /\ pc[c] = "run_query"
  /\ dbRunArgs' = [dbRunArgs EXCEPT ![c] = Append(@, generated_sql[c])]
  /\ dbRunRet' = [dbRunRet EXCEPT ![c] = FacadeRaised(e)]
  /\ facadeOutcome' = [facadeOutcome EXCEPT ![c] = FacadeRaised(e)]
  /\ pc' = [pc EXCEPT ![c] = "done"]
  /\ UNCHANGED <<args, chainVars, inputs, generated_sql, wait_time, attempt, log,
                 completionRet, outcome>>

\* ------------------------------------------------------------------------
\* Specifications
\* ------------------------------------------------------------------------
Next ==
  \/ \E c \in Calls : GenerateSql(c)
  \/ \E c \in Calls : EnterRetry(c)
  \/ \E c \in Calls : \E e \in SchemaErrors : ChainSchemaRaises(c, e)
  \/ \E c \in Calls : ChainFormatRaises(c)
  \/ \E c \in Calls : \E e \in LlmErrors : ChainLlmRaises(c, e)
  \/ \E c \in Calls : \E text \in RawTexts : ChainReturns(c, text)
  \/ \E c \in Calls : Sleep(c)
  \/ \E c \in Calls : Double(c)
  \/ \E c \in Calls : Exhausted(c)
  \/ \E c \in Calls : Clean(c)
  \/ \E c \in Calls : \E rows \in DbResults : RunQueryReturns(c, rows)
  \/ \E c \in Calls : \E e \in DbRunErrors : RunQueryRaises(c, e)

\* One facade call.
Spec == Init /\ [][Next]_vars

NextRetry ==
  \/ \E c \in Calls : EnterRetry(c)
  \/ \E c \in Calls : \E v \in CompletionValues : CompletionReturns(c, v)
  \/ \E c \in Calls : \E e \in LlmErrors : CompletionRaises(c, e)
  \/ \E c \in Calls : Sleep(c)
  \/ \E c \in Calls : Double(c)
  \/ \E c \in Calls : Exhausted(c)

\* One direct call of invoke_bedrock_with_retry, any arguments.
SpecRetry == InitRetry /\ [][NextRetry]_vars

NextConc ==
  \/ \E c \in Calls : EnterRetry(c)
  \/ \E c \in Calls : \E v \in ConcValues : CompletionReturns(c, v)
  \/ \E c \in Calls : \E e \in ConcErrors : CompletionRaises(c, e)
  \/ \E c \in Calls : Sleep(c)
  \/ \E c \in Calls : Double(c)
  \/ \E c \in Calls : Exhausted(c)

\* Concurrent direct calls of invoke_bedrock_with_retry, in any interleaving.
SpecConc == InitConc /\ [][NextConc]_vars

\* ------------------------------------------------------------------------
\* Observations on the log
\* ------------------------------------------------------------------------
IsCallEv(x) == x.ev = "call"
IsSleepEv(x) == x.ev = "sleep"
CallsOf(c) == SelectSeq(log[c], IsCallEv)
SleepsOf(c) == SelectSeq(log[c], IsSleepEv)
NumCalls(c) == Len(CallsOf(c))
NumSleeps(c) == Len(SleepsOf(c))
SleepSecs(c) == [i \in 1..NumSleeps(c) |-> SleepsOf(c)[i].secs]

\* w, 2w, 4w, ... (n terms)
Geometric(w, n) == [i \in 1..n |-> w * 2^(i - 1)]

\* The call raised an exception whose text holds the throttling marker.
RaisedThrottling(x) ==
  x.ev = "call" /\ x.res # "ok" /\ Contains(x.err.msg, ThrottlingMarker)
\* The call raised an exception whose text does not hold the marker.
RaisedOther(x) ==
  x.ev = "call" /\ x.res # "ok" /\ ~Contains(x.err.msg, ThrottlingMarker)

AllThrottled(c) == \A i \in 1..NumCalls(c) : RaisedThrottling(CallsOf(c)[i])

\* The first N calls raised a throttling error and call N+1 returned.
ThrottledThenOk(c, N) ==
  /\ NumCalls(c) > N
  /\ \A i \in 1..N : RaisedThrottling(CallsOf(c)[i])
  /\ CallsOf(c)[N + 1].res = "ok"

\* ------------------------------------------------------------------------
\* Claims about invoke_bedrock_with_retry (SpecRetry, SpecConc)
\* ------------------------------------------------------------------------
\* C1: if the completion call raises a throttling error on exactly its first
\* N calls (0 <= N < max_retries) and then succeeds, the invoker returns that
\* value, the completion function has been called exactly N+1 times, the
\* sleeps are initial_wait, 2*initial_wait, ..., 2^(N-1)*initial_wait, one
\* after each throttled call, and no call and no sleep follows the success.
C1_ThrottledThenSuccess ==
  \A c \in Calls : \A N \in 0..(max_retries[c] - 1) :
    ThrottledThenOk(c, N) =>
      /\ pc[c] = "done"
      /\ outcome[c] = Returned(completionRet[c])
      /\ NumCalls(c) = N + 1
      /\ SleepSecs(c) = Geometric(initial_wait[c], N)
      /\ Len(log[c]) = 2 * N + 1
      /\ \A i \in 1..N : IsCallEv(log[c][2 * i - 1]) /\ IsSleepEv(log[c][2 * i])
      /\ log[c][2 * N + 1].res = "ok"

C1_Witness ==
  \E c \in Calls :
    /\ ThrottledThenOk(c, 3)
    /\ initial_wait[c] = 2
    /\ outcome[c] = Returned(<<"a">>)
    /\ SleepSecs(c) = <<2, 4, 8>>

\* C2: if every completion call raises a throttling error, the invoker ends
\* in the retries-exhausted error after exactly max_retries completion calls
\* (5 with the default), never more, never fewer, and never returns a value.
C2_AlwaysThrottled ==
  \A c \in Calls :
    /\ AllThrottled(c) =>
         /\ NumCalls(c) <= max_retries[c]
         /\ outcome[c].kind # "returned"
         /\ pc[c] = "done" =>
              /\ outcome[c] = Raised(RetriesExhaustedError)
              /\ NumCalls(c) = max_retries[c]
    /\ outcome[c] = Raised(RetriesExhaustedError) =>
         AllThrottled(c) /\ NumCalls(c) = max_retries[c]

C2_Witness ==
  \E c \in Calls :
    /\ max_retries[c] = DefaultMaxRetries
    /\ pc[c] = "done"
    /\ outcome[c] = Raised(RetriesExhaustedError)
    /\ NumCalls(c) = 5

\* C3: a completion call that raises an error whose text does not contain
\* "ThrottlingException", on the first attempt or a later one, ends the
\* invocation: that same error is the outcome (not the retries-exhausted
\* error), no sleep and no further call follows it.
C3_NonThrottlingReraised ==
  \A c \in Calls : \A i \in 1..Len(log[c]) :
    RaisedOther(log[c][i]) =>
      /\ i = Len(log[c])
      /\ pc[c] = "done"
      /\ outcome[c] = Raised(log[c][i].err)
      /\ outcome[c].err # RetriesExhaustedError
      /\ (i = 1 => NumCalls(c) = 1 /\ NumSleeps(c) = 0)

C3_Witness ==
  \E c \in Calls :
    /\ Len(log[c]) = 5
    /\ RaisedOther(log[c][5])
    /\ outcome[c].kind = "raised"

\* C7: with concurrent calls, each call has its own attempt counter and its
\* own wait: a step of one call changes neither the attempt, the wait nor
\* the log of another, every call makes at most its own max_retries
\* completion calls and its sleeps are initial_wait, 2*initial_wait, ...
C7_OwnState ==
  \A c \in Calls :
    /\ NumCalls(c) <= max_retries[c]
    /\ SleepSecs(c) = Geometric(initial_wait[c], NumSleeps(c))
    /\ pc[c] \in {"try", "sleep", "double"} =>
         wait_time[c] = initial_wait[c] * 2^attempt[c]
    /\ pc[c] \in {"try", "sleep"} => attempt[c] = NumSleeps(c)

C7_OthersUntouched ==
  \A c \in Calls :
    pc'[c] = pc[c] =>
      /\ attempt'[c] = attempt[c]
      /\ wait_time'[c] = wait_time[c]
      /\ log'[c] = log[c]
      /\ outcome'[c] = outcome[c]

C7_IndependentCalls == [](C7_OwnState) /\ [][C7_OthersUntouched]_vars

C7_Witness ==
  \E c \in Calls : \E d \in Calls :
    /\ c # d
    /\ initial_wait[c] = 1 /\ initial_wait[d] = 2
    /\ SleepSecs(c) = <<1, 2>>
    /\ SleepSecs(d) = <<2>>
    /\ pc[d] = "double"

\* C8: every backoff sleep is a wait before another completion attempt: at
\* most max_retries-1 sleeps per invocation, none after the final attempt,
\* and with the defaults a run in which every attempt throttles sleeps
\* exactly 1, 2, 4, 8.
C8_NoSleepAfterFinalAttempt ==
  \A c \in Calls :
    /\ NumSleeps(c) <= max_retries[c] - 1
    /\ (pc[c] = "done" /\ log[c] # <<>>) => IsCallEv(log[c][Len(log[c])])
    /\ ( /\ pc[c] = "done"
         /\ AllThrottled(c)
         /\ max_retries[c] = DefaultMaxRetries
         /\ initial_wait[c] = DefaultInitialWait )
       => SleepSecs(c) = <<1, 2, 4, 8>>

\* ------------------------------------------------------------------------
\* Claims about generate_sql and the facades (Spec)
\* ------------------------------------------------------------------------
\* The clean-up as the specification words it: everything after the first
\* marker, trimmed; without a marker the text, trimmed.
ReferenceClean(raw) ==
  IF Contains(raw, SqlMarker)
  THEN Strip(SubSeq(raw, Find(raw, SqlMarker) + Len(SqlMarker), Len(raw)))
  ELSE Strip(raw)

\* C4: the cleaned text equals the reference for every raw text: everything
\* after the first "SQL Query:" up to the end of raw (later markers
\* included), trimmed, or raw trimmed when it holds no marker.
C4_CleanupMatchesReference ==
  \A c \in Calls :
    (pc[c] \in {"run_query", "done"} /\ outcome[c].kind = "returned") =>
      generated_sql[c] = ReferenceClean(outcome[c].value)

\* The call is for a tier whose template has {experience} and no experience
\* value is supplied (None or "").
NeedsExperience(c) == TemplateOf(facade[c]) \in {"intermediate", "high"}
ExperienceAbsent(c) == ~Truthy(experience[c])

\* C5 as claimed: for tier intermediate or high without an experience value
\* the request fails with the missing-experience error, with no sleep, no
\* llm call and no db.run call; for low and medium the absence of experience
\* never causes a failure.
C5_MissingExperienceAlways ==
  \A c \in Calls :
    /\ (NeedsExperience(c) /\ ExperienceAbsent(c)) =>
         /\ llmCalls[c] = 0
         /\ dbRunArgs[c] = <<>>
         /\ NumSleeps(c) = 0
         /\ pc[c] = "done" => facadeOutcome[c] = FacadeRaised(MissingExperienceError)
    /\ ~NeedsExperience(c) =>
         /\ facadeOutcome[c].err # MissingExperienceError
         /\ \A i \in 1..Len(log[c]) : log[c][i].at # "format"

\* C5, amended: for tier intermediate or high without an experience value
\* the request never returns a value and neither the llm nor db.run is
\* called; every attempt ends in the schema fetch or in prompt formatting;
\* prompt formatting raises the missing-experience error, which ends the
\* request at once (no sleep, no further call) with that error; a sleep only
\* follows a schema fetch that raised a throttling-marked error. For low and
\* medium the absence of experience never causes a failure.
C5_MissingExperience ==
  \A c \in Calls :
    /\ (NeedsExperience(c) /\ ExperienceAbsent(c)) =>
         /\ llmCalls[c] = 0
         /\ dbRunArgs[c] = <<>>
         /\ outcome[c].kind # "returned"
         /\ facadeOutcome[c].kind # "returned"
         /\ \A i \in 1..Len(log[c]) :
              /\ IsCallEv(log[c][i]) =>
                   /\ log[c][i].at \in {"schema", "format"}
                   /\ log[c][i].res # "ok"
              /\ log[c][i].at = "format" =>
                   /\ log[c][i].err = MissingExperienceError
                   /\ i = Len(log[c])
                   /\ pc[c] = "done"
                   /\ facadeOutcome[c] = FacadeRaised(MissingExperienceError)
              /\ IsSleepEv(log[c][i]) =>
                   log[c][i - 1].at = "schema" /\ RaisedThrottling(log[c][i - 1])
         /\ (log[c] # <<>> /\ log[c][1].at # "schema") =>
              /\ log[c] = <<CallEv("error", "format", MissingExperienceError)>>
              /\ facadeOutcome[c] = FacadeRaised(MissingExperienceError)
    /\ ~NeedsExperience(c) =>
         /\ facadeOutcome[c].err # MissingExperienceError
         /\ \A i \in 1..Len(log[c]) : log[c][i].at # "format"

C5_Witness ==
  \E c \in Calls :
    /\ TemplateOf(facade[c]) = "high"
    /\ experience[c] = Str(<<>>)
    /\ pc[c] = "done"
    /\ log[c] = <<CallEv("error", "format", MissingExperienceError)>>
    /\ schemaFetches[c] = 1
    /\ facadeOutcome[c] = FacadeRaised(MissingExperienceError)

\* C6: a failure of db.run reaches the caller and is never retried: db.run
\* is called at most once per facade call, once it has been called the call
\* is over (no llm call, no sleep, no step follows), and the facade ends
\* with what db.run raised, also when its text holds the throttling marker.
C6_ExecuteNeverRetried ==
  \A c \in Calls :
    /\ Len(dbRunArgs[c]) <= 1
    /\ dbRunArgs[c] # <<>> =>
         /\ pc[c] = "done"
         /\ ~ENABLED Next
         /\ log[c][Len(log[c])].res = "ok"
         /\ dbRunRet[c].kind \in {"returned", "raised"}
         /\ facadeOutcome[c] = dbRunRet[c]
         /\ dbRunRet[c].kind = "raised" => dbRunRet[c].err \in DbRunErrors

C6_Witness ==
  \E c \in Calls :
    /\ Len(dbRunArgs[c]) = 1
    /\ facadeOutcome[c].kind = "raised"
    /\ Contains(facadeOutcome[c].err.msg, ThrottlingMarker)
    /\ NumSleeps(c) = 0
    /\ llmCalls[c] = 1

\* C9: a facade runs assemble, invoke with retry, clean, execute, return in
\* that order: db.run is called exactly once if and only if the invoker
\* returned a value, with the cleaned form of that text, and the facade
\* returns what db.run returned; if the invoker raised, db.run is never
\* called and that error is the facade's outcome.
C9_FacadeOrder ==
  \A c \in Calls :
    /\ Len(dbRunArgs[c]) <= 1
    /\ pc[c] = "done" => (Len(dbRunArgs[c]) = 1 <=> outcome[c].kind = "returned")
    /\ dbRunArgs[c] # <<>> =>
         /\ outcome[c] = Returned(completionRet[c])
         /\ dbRunArgs[c][1] = cleanGeneratedText(outcome[c].value)
         /\ facadeOutcome[c] = dbRunRet[c]
    /\ facadeOutcome[c].kind = "returned" =>
         /\ dbRunArgs[c] # <<>>
         /\ dbRunRet[c] = FacadeReturned(facadeOutcome[c].rows)
    /\ outcome[c].kind = "raised" =>
         /\ pc[c] = "done"
         /\ dbRunArgs[c] = <<>>
         /\ facadeOutcome[c] = FacadeRaised(outcome[c].err)
    /\ outcome[c].kind = "none" => dbRunArgs[c] = <<>> /\ facadeOutcome[c].kind = "none"

C9_Witness ==
  \E c \in Calls :
    /\ pc[c] = "done"
    /\ NumCalls(c) = 2
    /\ outcome[c].value = SqlMarker \o <<" ", "a">>
    /\ dbRunArgs[c] = << <<"a">> >>
    /\ facadeOutcome[c] = FacadeReturned("[(1,), (2,)]")

\* C10: the retried unit is the whole chain: every attempt fetches the
\* schema again (k attempts, k fetches), and an error raised by the schema
\* fetch or by prompt formatting is retried with backoff if its text holds
\* "ThrottlingException" and re-raised at once otherwise.
C10_WholeChainRetried ==
  \A c \in Calls :
    /\ schemaFetches[c] = NumCalls(c)
    /\ \A i \in 1..Len(log[c]) :
         (IsCallEv(log[c][i]) /\ log[c][i].at \in {"schema", "format"}) =>
           IF Contains(log[c][i].err.msg, ThrottlingMarker)
           THEN /\ i = Len(log[c]) => pc[c] = "sleep"
                /\ i < Len(log[c]) => IsSleepEv(log[c][i + 1])
                /\ outcome[c].err # log[c][i].err
           ELSE /\ i = Len(log[c])
                /\ pc[c] = "done"
                /\ outcome[c] = Raised(log[c][i].err)

C10_Witness ==
  \E c \in Calls :
    /\ NumCalls(c) = 3
    /\ schemaFetches[c] = 3
    /\ log[c][1].at = "schema" /\ RaisedThrottling(log[c][1])
    /\ IsSleepEv(log[c][2])
    /\ log[c][3].at = "llm"
    /\ log[c][5].at = "schema" /\ RaisedOther(log[c][5])

====
